---------------------------- MODULE Spec2Model ----------------------------
(***************************************************************************)
(* The analysis pipeline of aeochecker-backend: one analysis job, from the *)
(* moment create_analysis_job has written it, through                      *)
(* AnalysisService.perform_analysis_task (URL validation, scrape, company   *)
(* facts, the three analyzers, finalization), together with the documents  *)
(* the pipeline shares with the rest of the service: the job document, the *)
(* owner's user document and the report document.                           *)
(*                                                                         *)
(* Floats are percentages: progress 0.10 is 10, 1.0 is 100.                *)
(* A text (an exception message, a URL) is the set of marker substrings    *)
(* the classification code looks for in it, so that `"403" in message` is  *)
(* set membership and a message that embeds the URL carries the URL's      *)
(* markers as well.                                                        *)
(***************************************************************************)
EXTENDS Integers, Sequences, FiniteSets, TLC

VARIABLES
    env,        \* what the world outside does during this job (fixed at start)
    job,        \* the analysis_jobs document
    user,       \* the owner's users document
    report,     \* users/{uid}/reports/{job_id}: "none", "saved" or "deleted"
    pc,         \* where perform_analysis_task stands
    attempt,    \* scrape_website: the loop variable
    answers,    \* scrape_website: the answers received so far, in order
    facts,      \* company_facts["name"] once extracted
    tasks,      \* the three analyzer tasks given to asyncio.gather
    calls,      \* competitor fan-out: each provider call's state
    responses,  \* competitor fan-out: the responses dict
    results,    \* competitor analyzer: competitor_results
    idx,        \* _run_parallel_analyses: the loop index over the results
    snap,       \* _finalize_report: what user_ref.get() returned
    credited,   \* number of credit decrements this job has applied
    seen,       \* the progress the last get_job_status call returned
    llm,        \* one call of a provider's query function, taken on its own
    fn,         \* one function of the pipeline applied on its own:
                \* its name, its arguments and what it returned
    reader,     \* one get_job_report request of the owner
    submitted,  \* the analysis requests of one user, each with its stage
    share       \* one job's share fields and the create_share_link calls

vars == <<env, job, user, report, pc, attempt, answers, facts, tasks, calls,
          responses, results, idx, snap, credited, seen, llm, fn, reader,
          submitted, share>>

-----------------------------------------------------------------------------
(* Bounds of the model *)

MaxCredits == 2

(* Program constants *)

max_retries == 3
ProgressCreated == 0
ProgressValidated == 10
ProgressScraped == 20
ProgressStep == 20
ProgressCap == 80
ProgressDone == 100

Providers == <<"openai", "anthropic", "gemini", "perplexity">>
ProviderSet == {Providers[i] : i \in 1..Len(Providers)}
task_names == <<"ai_presence", "competitor_landscape", "strategy_review">>
TaskSet == {task_names[i] : i \in 1..Len(task_names)}

PROCESSING == "processing"
COMPLETED == "completed"
FAILED == "failed"


-----------------------------------------------------------------------------
(* Texts as sets of markers *)

\* The substrings _scrape_website_data looks for in str(e).
\* "timeout" and "connection" are matched on the lower-cased message.
MarkerSet == {"403", "Access forbidden", "404", "Page not found", "429",
              "Rate limited", "timeout", "took too long", "SSL", "certificate",
              "Failed to connect", "connection",
              "nodename nor servname provided"}

\* The URLs a job may be submitted with: an ordinary one, and ones whose text
\* happens to contain a marker (https://example.com/blog/403-errors, ...).
Urls == {{}, {"403"}, {"404"}, {"timeout"}}

\* The fixed part of each message scrape_website raises.
TemplateMarkers(template) ==
    CASE template = "forbidden"    -> {"403", "Access forbidden"}
      [] template = "not_found"    -> {"404", "Page not found"}
      [] template = "rate_limited" -> {"429", "Rate limited"}
      [] template = "too_long"     -> {"took too long"}
      [] template = "http_error"   -> {}
      [] template = "connect"      -> {"Failed to connect"}
      [] OTHER                     -> {}

\* Every message of scrape_website ends with ": {url}", except an unexpected
\* exception, which is re-raised as it is.
Message(template, url) ==
    [template |-> template, url |-> IF template = "other" THEN {} ELSE url]

NoMessage == [template |-> "none", url |-> {}]

Markers(msg) == TemplateMarkers(msg.template) \cup msg.url

NoError == [kind |-> "none", arg |-> "none"]
Sentence(s) == [kind |-> "sentence", arg |-> s]

user_friendly_error_SWAPPED(msg) ==
    LET m == Markers(msg) IN
    CASE "404" \in m \/ "Page not found" \in m            -> Sentence("not_found")
      [] "403" \in m \/ "Access forbidden" \in m          -> Sentence("blocked")
      [] "429" \in m \/ "Rate limited" \in m              -> Sentence("rate_limited")
      [] "timeout" \in m \/ "took too long" \in m         -> Sentence("timeout")
      [] "SSL" \in m \/ "certificate" \in m               -> Sentence("ssl")
      [] "Failed to connect" \in m \/ "connection" \in m  -> Sentence("connection")
      [] "nodename nor servname provided" \in m           -> Sentence("dns")
      [] OTHER                                            -> Sentence("unexpected")

\* _scrape_website_data, the except branch: the sentence chosen for str(e).
user_friendly_error(msg) ==
    LET m == Markers(msg) IN
    CASE "403" \in m \/ "Access forbidden" \in m          -> Sentence("blocked")
      [] "404" \in m \/ "Page not found" \in m            -> Sentence("not_found")
      [] "429" \in m \/ "Rate limited" \in m              -> Sentence("rate_limited")
      [] "timeout" \in m \/ "took too long" \in m         -> Sentence("timeout")
      [] "SSL" \in m \/ "certificate" \in m               -> Sentence("ssl")
      [] "Failed to connect" \in m \/ "connection" \in m  -> Sentence("connection")
      [] "nodename nor servname provided" \in m           -> Sentence("dns")
      [] OTHER                                            -> Sentence("unexpected")

-----------------------------------------------------------------------------
(* scrape_website *)

\* What one request to the target site can come back with: a page, an HTTP
\* error status, or a transport failure.  httpx reports a TLS failure as a
\* ConnectError, which is a RequestError like any other connection failure.
Answers == {"ok", "403", "404", "429", "500", "timeout", "connect", "ssl", "other"}

Last(attempt_) == attempt_ = max_retries - 1

on_403_EAGER(attempt_) == [next |-> "conservative", template |-> "none"]

\* if e.response.status_code == 403: retry with fresh headers, and on the
\* last attempt hand over to scrape_website_conservative.
on_403(attempt_) ==
    IF attempt_ < max_retries - 1
    THEN [next |-> "retry", template |-> "none"]
    ELSE [next |-> "conservative", template |-> "none"]

on_404_RETRY(attempt_) ==
    IF Last(attempt_)
    THEN [next |-> "raise", template |-> "not_found"]
    ELSE [next |-> "retry", template |-> "none"]

\* elif e.response.status_code == 404: raise at once.
on_404(attempt_) == [next |-> "raise", template |-> "not_found"]

\* One pass of the retry loop, attempt_ counted from 0 as in the code:
\* what the except clauses do with the answer.
attempt_outcome(a, attempt_) ==
    CASE a = "ok"      -> [next |-> "return", template |-> "none"]
      [] a = "timeout" -> IF Last(attempt_)
                          THEN [next |-> "raise", template |-> "too_long"]
                          ELSE [next |-> "retry", template |-> "none"]
      [] a = "403"     -> on_403(attempt_)
      [] a = "429"     -> IF attempt_ < max_retries - 1
                          THEN [next |-> "retry", template |-> "none"]
                          ELSE [next |-> "raise", template |-> "rate_limited"]
      [] a = "404"     -> on_404(attempt_)
      [] a = "500"     -> IF Last(attempt_)
                          THEN [next |-> "raise", template |-> "http_error"]
                          ELSE [next |-> "retry", template |-> "none"]
      [] a \in {"connect", "ssl"}
                       -> IF Last(attempt_)
                          THEN [next |-> "raise", template |-> "connect"]
                          ELSE [next |-> "retry", template |-> "none"]
      [] OTHER         -> IF Last(attempt_)
                          THEN [next |-> "raise", template |-> "other"]
                          ELSE [next |-> "retry", template |-> "none"]

-----------------------------------------------------------------------------
(* The documents *)

NoSubscription == [status |-> "none", type |-> "none"]

\* user_data["subscription"]: absent, or what update_user_subscription_details
\* writes (status active or cancelled, plan starter or developer).
Subscriptions == {NoSubscription,
                  [status |-> "active", type |-> "starter"],
                  [status |-> "active", type |-> "developer"],
                  [status |-> "cancelled", type |-> "starter"]}

active_subscription_ANY_STATUS(subscription) == subscription # NoSubscription

\* _finalize_report: the condition under which the credit is left alone.
active_subscription(subscription) ==
    /\ subscription # NoSubscription
    /\ subscription.status = "active"
    /\ subscription.type \in {"starter", "developer"}

NoResponse == [kind |-> "absent", of |-> "none"]

\* company_facts before scrape_company_facts has returned.
NoFacts == [extracted |-> FALSE, name |-> "", topic |-> FALSE,
            fallback |-> FALSE]

-----------------------------------------------------------------------------
(* The world outside, fixed when the job starts *)

\* answers:  the answers the target site may give to a request
\* keys:     the providers whose API key is configured (settings.*_API_KEY)
\* failing:  the providers whose API call raises when it is made
\* crash:    the analyzers that hit an unexpected exception
\* topics:   whether the page itself yields an industry or a product (TRUE),
\*           or not
\* polling:  whether the owner polls get_job_status while the job runs
BaseEnv == [answers |-> {"ok"}, keys |-> ProviderSet, failing |-> {},
            crash |-> {}, topics |-> {TRUE}, polling |-> FALSE]

ScrapeEnvs == {[BaseEnv EXCEPT !.answers = Answers]}

FanoutEnvs == {[BaseEnv EXCEPT !.keys = k, !.failing = f, !.topics = BOOLEAN] :
                 <<k, f>> \in {kf \in (SUBSET ProviderSet) \X (SUBSET ProviderSet) :
                                 kf[2] \subseteq kf[1]}}

CrashEnvs == {[BaseEnv EXCEPT !.crash = c, !.failing = f] :
                 <<c, f>> \in (SUBSET TaskSet) \X {{}, {"gemini"}}}

PollingEnvs == {[BaseEnv EXCEPT !.polling = TRUE, !.answers = {"ok", "404"},
                                !.crash = c] : c \in {{}, {"strategy_review"}}}

BaseUser == [exists |-> TRUE, credits |-> 1, subscription |-> NoSubscription,
             persistent |-> TRUE]

\* A user who passed check_user_credits: the document exists and holds at
\* least one credit.  persistent is FALSE also for a document written before
\* the field existed (user_to_delete.get("persistent", False)).
Users == {[exists |-> TRUE, credits |-> c, subscription |-> s, persistent |-> p] :
            c \in 1..MaxCredits, s \in Subscriptions, p \in BOOLEAN}

\* create_analysis_job: the job document as first written.
initial_job_data(url) ==
    [url |-> url, status |-> PROCESSING, progress |-> ProgressCreated,
     error |-> NoError, error_details |-> NoMessage]

\* No provider call and no function taken on its own.  Each is taken from
\* this state, one per behaviour.
NoCall == [provider |-> "none", attempt |-> 0, log |-> <<>>, status |-> "idle"]
NoFn == [op |-> "none"]

\* perform_analysis_task has been scheduled and has not run yet.
\* Bounds of the requests made beside the one job.
MaxJobs == 2
MaxCallers == 2

NOT_FOUND == "not_found"

\* No get_job_report request under way.
NoRequest == [at |-> "idle", status |-> "none", answer |-> "none",
              deleted |-> FALSE]

\* No analysis request submitted yet.
NoneSubmitted == [j \in 1..MaxJobs |-> "none"]

\* A job that was never shared (no "public", no "share_token" field) and no
\* create_share_link call under way; tokens counts the tokens generated.
NoShare == [public |-> FALSE, share_token |-> 0, tokens |-> 0, returned |-> {},
            calls |-> [c \in 1..MaxCallers |->
                         [at |-> "idle", public |-> FALSE, share_token |-> 0]]]

Quiet ==
    /\ reader = NoRequest
    /\ submitted = NoneSubmitted
    /\ share = NoShare

Scheduled ==
    /\ report = "none"
    /\ pc = "validate"
    /\ attempt = 0
    /\ answers = <<>>
    /\ facts = NoFacts
    /\ tasks = [t \in TaskSet |-> "none"]
    /\ calls = [p \in ProviderSet |-> "none"]
    /\ responses = [p \in ProviderSet |-> NoResponse]
    /\ results = [p \in ProviderSet |-> "none"]
    /\ idx = 0
    /\ snap = [exists |-> FALSE, subscription |-> NoSubscription]
    /\ credited = 0
    /\ seen = ProgressCreated

Init ==
    /\ \/ env \in ScrapeEnvs /\ job \in {initial_job_data(u) : u \in Urls}
                             /\ user = BaseUser
       \/ env \in FanoutEnvs \cup CrashEnvs \cup PollingEnvs
                             /\ job = initial_job_data({}) /\ user = BaseUser
       \/ env \in {BaseEnv, [BaseEnv EXCEPT !.crash = {"ai_presence"}]}
                             /\ job = initial_job_data({}) /\ user \in Users
    /\ Scheduled
    /\ llm = NoCall
    /\ fn = NoFn
    /\ Quiet

-----------------------------------------------------------------------------
(* perform_analysis_task *)

\* job_ref.update({"status": FAILED, "error": ..., ...}) and the return that
\* follows it: the task is over.
Fail(error, details) ==
    /\ job' = [job EXCEPT !.status = FAILED, !.error = error,
                          !.error_details = details]
    /\ pc' = "done"

\* _validate_url.  _validate_and_get_best_url returns one of the candidates
\* (never an empty string) or raises.
_validate_url ==
    /\ pc = "validate"
    /\ \/ /\ job' = [job EXCEPT !.progress = ProgressValidated]
          /\ pc' = "scrape"
       \/ Fail([kind |-> "exception", arg |-> "validate"], job.error_details)
    /\ UNCHANGED <<fn, llm, env, user, report, attempt, answers, facts, tasks, calls,
                   responses, results, idx, snap, credited, seen,
                   reader, submitted, share>>

scrape_failed_RETURN(msg) == pc' = "done" /\ UNCHANGED job

\* _scrape_website_data, the except branch around scrape_website.
scrape_failed(msg) == Fail(user_friendly_error(msg), msg)

\* scrape_website: one standard attempt, and _scrape_website_data's handling
\* of what it raises.
scrape_website ==
    /\ pc = "scrape"
    /\ attempt < max_retries
    /\ \E a \in env.answers :
         LET o == attempt_outcome(a, attempt) IN
         /\ answers' = Append(answers, a)
         /\ CASE o.next = "return" ->
                   /\ pc' = "facts"
                   /\ UNCHANGED <<job, attempt>>
              [] o.next = "retry" ->
                   /\ attempt' = attempt + 1
                   /\ UNCHANGED <<job, pc>>
              [] o.next = "conservative" ->
                   /\ pc' = "conservative"
                   /\ UNCHANGED <<job, attempt>>
              [] OTHER ->
                   /\ scrape_failed(Message(o.template, job.url))
                   /\ UNCHANGED attempt
    /\ UNCHANGED <<fn, llm, env, user, report, facts, tasks, calls, responses, results,
                   idx, snap, credited, seen, reader, submitted, share>>

\* scrape_website_conservative, called from the 403 branch of the last
\* attempt: whatever it raises becomes the "Access forbidden (403)" error.
scrape_website_conservative ==
    /\ pc = "conservative"
    /\ \E a \in env.answers :
         /\ answers' = Append(answers, a)
         /\ IF a = "ok"
            THEN pc' = "facts" /\ UNCHANGED job
            ELSE scrape_failed(Message("forbidden", job.url))
    /\ UNCHANGED <<fn, llm, env, user, report, attempt, facts, tasks, calls, responses,
                   results, idx, snap, credited, seen,
                   reader, submitted, share>>

-----------------------------------------------------------------------------
(* The competitor analyzer's provider fan-out *)

\* _query_llms_competitors: the tasks list, in the order it is built.
\* A provider without a key gets its "API key not configured" entry at once.
dispatch(topic, keys) ==
    [p \in ProviderSet |-> IF topic /\ p \in keys THEN "pending" ELSE "none"]

not_configured(topic, keys) ==
    [p \in ProviderSet |->
        IF topic /\ p \notin keys
        THEN [kind |-> "not_configured", of |-> p] ELSE NoResponse]

dispatched(c) == SelectSeq(Providers, LAMBDA p : c[p] # "none")

\* for i, result in enumerate(results): the i-th result is the i-th task of
\* the tasks list; an exception is filed under the i-th name of the fixed
\* order openai, anthropic, gemini, perplexity if that name has no entry yet,
\* a text under the name the call returned with it.
RECURSIVE gather_results(_, _, _, _)
gather_results(resp, c, seq, i) ==
    IF i > Len(seq) THEN resp
    ELSE LET p == seq[i]
             slot == Providers[i]
             next == IF c[p] = "error"
                     THEN IF resp[slot].kind = "absent"
                          THEN [resp EXCEPT ![slot] = [kind |-> "error", of |-> p]]
                          ELSE resp
                     ELSE [resp EXCEPT ![p] = [kind |-> "text", of |-> p]]
         IN  gather_results(next, c, seq, i + 1)

gather_raises_FIRST(c) == \E p \in ProviderSet : c[p] = "error"

\* asyncio.gather(*tasks, return_exceptions=True): an exception of one call
\* is a result like the others; the gather itself does not raise.
gather_raises(c) == FALSE

\* analyze: a text is parsed and scored, anything else (an error, a missing
\* key, no entry at all) is None in the result.
competitor_results(resp) ==
    [p \in ProviderSet |-> IF resp[p].kind = "text" THEN "scored" ELSE "none"]

\* One provider call (query_openai, query_anthropic, query_gemini,
\* query_perplexity) comes back: with a text, or by raising.
query_provider(p) ==
    /\ calls[p] = "pending"
    /\ calls' = [calls EXCEPT ![p] = IF p \in env.failing THEN "error" ELSE "text"]
    /\ UNCHANGED <<fn, llm, env, job, user, report, pc, attempt, answers, facts, tasks,
                   responses, results, idx, snap, credited, seen,
                   reader, submitted, share>>

\* CompetitorLandscapeAnalyzer.analyze, from the return of the gather on.
competitor_analyze ==
    /\ tasks["competitor_landscape"] = "running"
    /\ \A p \in ProviderSet : calls[p] # "pending"
    /\ LET resp == gather_results(responses, calls, dispatched(calls), 1) IN
       /\ responses' = resp
       /\ results' = competitor_results(resp)
    /\ tasks' = [tasks EXCEPT !["competitor_landscape"] =
                   IF gather_raises(calls) \/ "competitor_landscape" \in env.crash
                   THEN "raised" ELSE "returned"]
    /\ UNCHANGED <<fn, llm, env, job, user, report, pc, attempt, answers, facts, calls,
                   idx, snap, credited, seen, reader, submitted, share>>

\* AiPresenceAnalyzer.analyze and StrategyReviewAnalyzer.analyze return a
\* (score, result) pair or raise.
analyze(t) ==
    /\ t # "competitor_landscape"
    /\ tasks[t] = "running"
    /\ tasks' = [tasks EXCEPT ![t] = IF t \in env.crash THEN "raised" ELSE "returned"]
    /\ UNCHANGED <<fn, llm, env, job, user, report, pc, attempt, answers, facts, calls,
                   responses, results, idx, snap, credited, seen,
                   reader, submitted, share>>

-----------------------------------------------------------------------------
(* Company facts, the analyzers, finalization *)

Names == {"", "Acme"}

name_is_empty_NONE(name) == FALSE

\* if company_facts["name"] == ""
name_is_empty(name) == name = ""

\* scrape_company_facts, the LLM fallback: what query_openai can add to a
\* page that yields neither industry nor products.  The call is made whether
\* or not OPENAI_API_KEY is set; without a key, or when the call raises, the
\* except clause leaves both fields empty.  With a key the answer names an
\* industry or products (TRUE) or says "Unknown" (FALSE).
llm_fallback(keys, failing) ==
    IF "openai" \in keys /\ "openai" \notin failing THEN BOOLEAN ELSE {FALSE}

\* The rest of _scrape_website_data (scrape_company_facts and the name check)
\* and, on success, _run_parallel_analyses up to its await: the three tasks
\* are created and run to their first suspension.
scrape_company_facts ==
    /\ pc = "facts"
    /\ \/ Fail(Sentence("extract_failed"), Message("other", job.url))
          /\ UNCHANGED <<facts, tasks, calls, responses>>
       \/ \E n \in Names, page \in env.topics :
          \E answer \in IF page THEN {FALSE} ELSE llm_fallback(env.keys, env.failing) :
          LET topic == page \/ answer IN
            /\ facts' = [extracted |-> TRUE, name |-> n, topic |-> topic,
                         fallback |-> ~page]
            /\ IF name_is_empty(n)
               THEN /\ Fail(Sentence("no_information"), job.error_details)
                    /\ UNCHANGED <<tasks, calls, responses>>
               ELSE
                 /\ job' = [job EXCEPT !.progress = ProgressScraped]
                 /\ tasks' = [t \in TaskSet |-> "running"]
                 /\ calls' = dispatch(topic, env.keys)
                 /\ responses' = not_configured(topic, env.keys)
                 /\ pc' = "analyze"
    /\ UNCHANGED <<fn, llm, env, user, report, attempt, answers, results, idx, snap,
                   credited, seen, reader, submitted, share>>

Min(a, b) == IF a < b THEN a ELSE b

is_exception_NEVER(result) == FALSE

\* if isinstance(result, Exception)
is_exception(result) == result = "raised"

analysis_progress_DOWN(i) == ProgressCap - (i + 1) * ProgressStep

\* progress = 0.20 + (i + 1) * 0.20, written as min(progress, 0.80)
analysis_progress(i) == Min(ProgressScraped + (i + 1) * ProgressStep, ProgressCap)

\* _run_parallel_analyses after the gather: one pass of the loop over the
\* three results, in the order of task_names.
_run_parallel_analyses ==
    /\ pc = "analyze"
    /\ \A t \in TaskSet : tasks[t] \in {"returned", "raised"}
    /\ LET analysis_name == task_names[idx + 1] IN
       IF is_exception(tasks[analysis_name])
       THEN /\ Fail([kind |-> "analysis_failed", arg |-> analysis_name],
                    job.error_details)
            /\ UNCHANGED idx
       ELSE /\ job' = [job EXCEPT !.progress = analysis_progress(idx)]
            /\ idx' = idx + 1
            /\ pc' = IF idx + 1 = Len(task_names) THEN "finalize" ELSE "analyze"
    /\ UNCHANGED <<fn, llm, env, user, report, attempt, answers, facts, tasks, calls,
                   responses, results, snap, credited, seen,
                   reader, submitted, share>>

\* perform_analysis_task, the except branch: whatever an earlier step let
\* through ends here.
task_failed == Fail([kind |-> "exception", arg |-> "task"], job.error_details)

\* _finalize_report, first store call: the job is marked completed.
_finalize_report_status ==
    /\ pc = "finalize"
    /\ job' = [job EXCEPT !.status = COMPLETED, !.progress = ProgressDone]
    /\ pc' = "user"
    /\ UNCHANGED <<fn, llm, env, user, report, attempt, answers, facts, tasks, calls,
                   responses, results, idx, snap, credited, seen,
                   reader, submitted, share>>

\* _finalize_report, user_ref.get(): the call returns the document as it is
\* now, or raises.
_finalize_report_user ==
    /\ pc = "user"
    /\ \/ /\ snap' = [exists |-> user.exists, subscription |-> user.subscription]
          /\ pc' = IF user.exists /\ ~active_subscription(user.subscription)
                   THEN "credit" ELSE "save"
          /\ UNCHANGED job
       \/ task_failed /\ UNCHANGED snap
    /\ UNCHANGED <<fn, llm, env, user, report, attempt, answers, facts, tasks, calls,
                   responses, results, idx, credited, seen,
                   reader, submitted, share>>

\* _finalize_report, user_ref.update({"credits": Increment(-1)}): applied, or
\* raising (always when the document is gone by now).
_finalize_report_credit ==
    /\ pc = "credit"
    /\ \/ /\ user.exists
          /\ user' = [user EXCEPT !.credits = @ - 1]
          /\ credited' = credited + 1
          /\ pc' = "save"
          /\ UNCHANGED job
       \/ task_failed /\ UNCHANGED <<user, credited>>
    /\ UNCHANGED <<fn, llm, env, report, attempt, answers, facts, tasks, calls,
                   responses, results, idx, snap, seen,
                   reader, submitted, share>>

_finalize_report_save_THEN_RAISE ==
    /\ pc = "save"
    /\ report' = "saved"
    /\ task_failed
    /\ UNCHANGED <<fn, llm, env, user, attempt, answers, facts, tasks, calls,
                   responses, results, idx, snap, credited, seen,
                   reader, submitted, share>>

\* _finalize_report, report_ref.set(result_data): written, or raising.
_finalize_report_save ==
    /\ pc = "save"
    /\ \/ report' = "saved" /\ pc' = "done" /\ UNCHANGED job
       \/ task_failed /\ UNCHANGED report
    /\ UNCHANGED <<fn, llm, env, user, attempt, answers, facts, tasks, calls,
                   responses, results, idx, snap, credited, seen,
                   reader, submitted, share>>

-----------------------------------------------------------------------------
(* Requests of the rest of the service that touch the same documents *)

\* get_job_status, by the owner.
get_job_status ==
    /\ env.polling
    /\ seen' = job.progress
    /\ UNCHANGED <<fn, llm, env, job, user, report, pc, attempt, answers, facts, tasks,
                   calls, responses, results, idx, snap, credited,
                   reader, submitted, share>>

\* ReportService.get_job_report, by the owner: the read of the job document.
\* A job that is not Completed is answered with its status at once.
get_job_report_job ==
    /\ env.polling
    /\ reader.at # "job_read"
    /\ reader' = IF job.status = COMPLETED
                 THEN [at |-> "job_read", status |-> COMPLETED,
                       answer |-> "none", deleted |-> FALSE]
                 ELSE [at |-> "answered", status |-> job.status,
                       answer |-> job.status, deleted |-> FALSE]
    /\ UNCHANGED <<fn, llm, env, job, user, report, pc, attempt, answers, facts,
                   tasks, calls, responses, results, idx, snap, credited, seen,
                   submitted, share>>

\* get_job_report after it found the job Completed: the read of the report
\* document, answered NOT_FOUND when there is none.
get_job_report_report ==
    /\ reader.at = "job_read"
    /\ reader' = [at |-> "answered", status |-> COMPLETED,
                  answer |-> IF report = "saved" THEN COMPLETED ELSE NOT_FOUND,
                  deleted |-> report = "deleted"]
    /\ UNCHANGED <<fn, llm, env, job, user, report, pc, attempt, answers, facts,
                   tasks, calls, responses, results, idx, snap, credited, seen,
                   submitted, share>>

\* UserService.delete_user, reached through DELETE /users/{uid}, which
\* refuses a persistent user: the reports and the user document go.
delete_user ==
    /\ user.exists
    /\ ~user.persistent
    /\ user' = [user EXCEPT !.exists = FALSE]
    /\ report' = IF report = "saved" THEN "deleted" ELSE report
    /\ UNCHANGED <<fn, llm, env, job, pc, attempt, answers, facts, tasks, calls,
                   responses, results, idx, snap, credited, seen,
                   reader, submitted, share>>

-----------------------------------------------------------------------------

Step ==
    \/ _validate_url
    \/ scrape_website
    \/ scrape_website_conservative
    \/ scrape_company_facts
    \/ \E p \in ProviderSet : query_provider(p)
    \/ competitor_analyze
    \/ \E t \in TaskSet : analyze(t)
    \/ _run_parallel_analyses
    \/ _finalize_report_status
    \/ _finalize_report_user
    \/ _finalize_report_credit
    \/ _finalize_report_save

Next ==
    \/ Step
    \/ get_job_status
    \/ get_job_report_job
    \/ get_job_report_report
    \/ delete_user

Spec == Init /\ [][Next]_vars

\* Every external call returns or raises, and the event loop runs a task
\* that can run: each step of the pipeline that is enabled is taken.
FairSpec == Spec /\ WF_vars(Step)

-----------------------------------------------------------------------------
(* The provider query functions of llm_utils, one call taken on its own *)

LLM_MAX_RETRIES == 3

\* What one request to a provider comes back with: a text, or an exception
\* for a network failure, a timeout, a 5xx answer, a 429 answer, an
\* "overloaded" answer, or a rejected credential.
Outcomes == {"ok", "network", "timeout", "5xx", "429", "overloaded", "auth"}

\* query_anthropic: the keywords looked for in str(e).lower().  The message
\* of a network failure, a timeout, a 429 or an overloaded answer carries
\* one; that of a 5xx answer or a rejected credential carries none.
is_retryable(outcome) == outcome \in {"network", "timeout", "429", "overloaded"}

\* Only query_anthropic wraps its request in `for attempt in
\* range(max_attempts)`; query_openai, query_gemini and query_perplexity make
\* one request and let its exception through.
has_retry_loop(provider) == provider = "anthropic"

\* A caller awaits query_<provider>(prompt).
query_start(p) ==
    /\ llm = NoCall
    /\ fn = NoFn
    /\ llm' = [provider |-> p, attempt |-> 0, log |-> <<>>, status |-> "calling"]
    /\ UNCHANGED <<env, job, user, report, pc, attempt, answers, facts, tasks,
                   calls, responses, results, idx, snap, credited, seen, fn,
                   reader, submitted, share>>

\* One request of the call, and what the function does with its outcome.
query_attempt ==
    /\ llm.status = "calling"
    /\ \E o \in Outcomes :
         LET again == /\ has_retry_loop(llm.provider)
                      /\ is_retryable(o)
                      /\ llm.attempt < LLM_MAX_RETRIES - 1
         IN  llm' = [llm EXCEPT
                       !.log = Append(@, o),
                       !.attempt = IF again THEN @ + 1 ELSE @,
                       !.status = IF o = "ok" THEN "returned"
                                  ELSE IF again THEN "calling" ELSE "raised"]
    /\ UNCHANGED <<env, job, user, report, pc, attempt, answers, facts, tasks,
                   calls, responses, results, idx, snap, credited, seen, fn,
                   reader, submitted, share>>

-----------------------------------------------------------------------------
(* Functions of the pipeline applied on their own *)

RECURSIVE Sum(_, _)
Sum(f, S) == IF S = {} THEN 0
             ELSE LET x == CHOOSE y \in S : TRUE IN f[x] + Sum(f, S \ {x})

\* AiPresenceAnalyzer asks three providers, in this order.
AiProviders == <<"openai", "anthropic", "gemini">>
AiProviderSet == {AiProviders[i] : i \in 1..Len(AiProviders)}

\* What _score_llm_response looks at in a response: whether the name, a
\* product, the headquarters, the founding year and the industry of the
\* company facts occur in it, and whether it contains one of the phrases of
\* uncertainty ("i don't know", "i can't tell", "i can't find").
Reply(name, product, hq, founded, industry, uncertainty) ==
    [name |-> name, product |-> product, hq |-> hq, founded |-> founded,
     industry |-> industry, uncertainty |-> uncertainty]

\* The strings "API key not configured" and "Error: ..." as responses: none
\* of the company facts occurs in them, nor does a phrase of uncertainty.
Silent == Reply(FALSE, FALSE, FALSE, FALSE, FALSE, FALSE)

Replies == {Silent,
            Reply(FALSE, FALSE, FALSE, FALSE, FALSE, TRUE),
            Reply(TRUE, TRUE, FALSE, FALSE, FALSE, FALSE),
            Reply(TRUE, TRUE, TRUE, TRUE, TRUE, TRUE),
            Reply(TRUE, TRUE, TRUE, TRUE, TRUE, FALSE)}

_score_llm_response(reply) ==
      (IF reply.name THEN 10 ELSE 0)
    + (IF reply.product THEN 10 ELSE 0)
    + (IF reply.hq THEN 3 ELSE 0)
    + (IF reply.founded THEN 3 ELSE 0)
    + (IF reply.industry THEN 3 ELSE 0)
    - (IF reply.uncertainty THEN 2 ELSE 0)

\* _query_llms: the tasks list and the "API key not configured" entries,
\* then the same index-based loop over the gathered results as in the
\* competitor analyzer.
_query_llms(keys, failing) ==
    LET c == [p \in ProviderSet |->
                IF p \in keys THEN IF p \in failing THEN "error" ELSE "text"
                ELSE "none"]
        resp == [p \in ProviderSet |->
                   IF p \in AiProviderSet \ keys
                   THEN [kind |-> "not_configured", of |-> p] ELSE NoResponse]
    IN  gather_results(resp, c, dispatched(c), 1)

\* AiPresenceAnalyzer.analyze from the provider queries on: every entry of
\* llm_responses is scored, whatever it holds, and the scores are averaged
\* (avg_score = total / count).
ai_presence_analyze ==
    /\ llm = NoCall
    /\ fn = NoFn
    /\ \E keys \in SUBSET AiProviderSet :
       \E failing \in SUBSET keys :
       \E replies \in [AiProviderSet -> Replies] :
         LET llm_responses == _query_llms(keys, failing)
             models == {p \in ProviderSet : llm_responses[p].kind # "absent"}
             scores == [p \in models |->
                          _score_llm_response(IF llm_responses[p].kind = "text"
                                              THEN replies[p] ELSE Silent)]
         IN  fn' = [op |-> "ai_presence", keys |-> keys, failing |-> failing,
                    replies |-> replies, scores |-> scores,
                    total |-> Sum(scores, models),
                    count |-> Cardinality(models)]
    /\ UNCHANGED <<env, job, user, report, pc, attempt, answers, facts, tasks,
                   calls, responses, results, idx, snap, credited, seen, llm,
                   reader, submitted, share>>

-----------------------------------------------------------------------------
(* _validate_and_get_best_url *)

\* The number of URL variations probed (the code builds eight: the original,
\* its www twin and six subdomains).
MaxCandidates == 3

\* What the probe of one candidate comes back with: an exception, or a
\* response with its status code and the length of its body in bytes.
ProbeError == [kind |-> "error", status |-> 0, bytes |-> 0]
ProbeResults ==
    {ProbeError} \cup
    {[kind |-> "response", status |-> st, bytes |-> b] :
        st \in {200, 301, 403, 404}, b \in {0, 3000, 6000, 60000}}

\* score: by status code, plus a point per 1000 bytes of body, at most 50,
\* for a status below 400.
probe_score(r) ==
    (CASE r.status = 200                     -> 100
       [] r.status >= 300 /\ r.status < 400  -> 50
       [] r.status = 403                     -> 0 - 25
       [] r.status >= 400                    -> 0 - 50
       [] OTHER                              -> 0)
    + (IF r.status < 400 THEN Min(r.bytes \div 1000, 50) ELSE 0)

\* The loop over urls_to_check from candidate i on, with the best candidate
\* and score so far; returns the chosen candidate and how many were probed.
RECURSIVE check_urls(_, _, _, _)
check_urls(probes, i, best_url, best_score) ==
    IF i > Len(probes) THEN [url |-> best_url, probed |-> Len(probes)]
    ELSE LET r == probes[i] IN
         IF r.kind = "error" THEN check_urls(probes, i + 1, best_url, best_score)
         ELSE IF probe_score(r) > best_score
              THEN IF r.status = 200 /\ r.bytes > 5000
                   THEN [url |-> i, probed |-> i]
                   ELSE check_urls(probes, i + 1, i, probe_score(r))
              ELSE check_urls(probes, i + 1, best_url, best_score)

\* best_url = url (candidate 1, the original), best_score = -1.
_validate_and_get_best_url ==
    /\ llm = NoCall
    /\ fn = NoFn
    /\ \E probes \in [1..MaxCandidates -> ProbeResults] :
         fn' = [op |-> "validate_url", probes |-> probes,
                out |-> check_urls(probes, 1, 1, 0 - 1)]
    /\ UNCHANGED <<env, job, user, report, pc, attempt, answers, facts, tasks,
                   calls, responses, results, idx, snap, credited, seen, llm,
                   reader, submitted, share>>

-----------------------------------------------------------------------------
(* extract_company_name *)

MaxSiteNames == 1
MaxTitleNames == 2

\* Candidate names as they are found in the page and the URL.
NameStrings == {"Acme", "acme", "Acme.com", "Foo"}

\* get_domain_name capitalises the first letter of the domain label.
DomainNames == {"Acme", "Foo"}

_remove_domain_extension(name) == IF name = "Acme.com" THEN "Acme" ELSE name

lower(name) ==
    CASE name = "Acme"     -> "acme"
      [] name = "Acme.com" -> "acme.com"
      [] name = "Foo"      -> "foo"
      [] OTHER             -> name

SeqsUpTo(S, n) == UNION {[1..k -> S] : k \in 0..n}

Range(seq) == {seq[i] : i \in 1..Len(seq)}

\* [_remove_domain_extension(name) for name in names]
without_extensions(names) ==
    [i \in 1..Len(names) |-> _remove_domain_extension(names[i])]

\* cleaned_names: extensions removed, exact duplicates dropped, order kept.
RECURSIVE cleaned(_, _)
cleaned(names, acc) ==
    IF names = <<>> THEN acc
    ELSE LET c == _remove_domain_extension(Head(names)) IN
         cleaned(Tail(names), IF c \in Range(acc) THEN acc ELSE Append(acc, c))

\* The first name of a priority list that is among the most frequent, or "".
first_in(names, most) ==
    LET hits == SelectSeq(names, LAMBDA n : n \in Range(most)) IN
    IF hits = <<>> THEN "" ELSE Head(hits)

extract_company_name(high_priority_names, title_based_names, domain_based_names) ==
    LET potential_names == high_priority_names \o title_based_names
                              \o domain_based_names
        cleaned_names == cleaned(potential_names, <<>>)
        name_counts(l) == Cardinality({i \in 1..Len(cleaned_names) :
                                          lower(cleaned_names[i]) = l})
        max_count == CHOOSE m \in 1..Len(cleaned_names) :
                        /\ \E n \in Range(cleaned_names) : name_counts(lower(n)) = m
                        /\ \A n \in Range(cleaned_names) : name_counts(lower(n)) <= m
        most_frequent_names ==
            SelectSeq(cleaned_names, LAMBDA n : name_counts(lower(n)) = max_count)
        high == first_in(without_extensions(high_priority_names),
                         most_frequent_names)
        title == first_in(without_extensions(title_based_names),
                          most_frequent_names)
        domain == first_in(without_extensions(domain_based_names),
                           most_frequent_names)
    IN  IF cleaned_names = <<>> THEN ""
        ELSE IF Len(cleaned_names) = 1 THEN cleaned_names[1]
        ELSE IF Len(most_frequent_names) = 1 /\ max_count > 1
             THEN most_frequent_names[1]
        ELSE IF high # "" THEN high
        ELSE IF title # "" THEN title
        ELSE IF domain # "" THEN domain
        ELSE cleaned_names[1]

company_name ==
    /\ llm = NoCall
    /\ fn = NoFn
    /\ \E high \in SeqsUpTo(NameStrings, MaxSiteNames) :
       \E title \in SeqsUpTo(NameStrings, MaxTitleNames) :
       \E domain \in SeqsUpTo(DomainNames, 1) :
         fn' = [op |-> "company_name", high |-> high, title |-> title,
                domain |-> domain,
                out |-> extract_company_name(high, title, domain)]
    /\ UNCHANGED <<env, job, user, report, pc, attempt, answers, facts, tasks,
                   calls, responses, results, idx, snap, credited, seen, llm,
                   reader, submitted, share>>

-----------------------------------------------------------------------------
(* key_products_services of scrape_company_facts *)

MaxItems == 5
MaxProducts == 4

\* Product names as they stand in JSON-LD, meta keywords or the LLM's answer.
Products == {"crm", "CRM", "erp", "hr", "pos", "bi"}

product_lower(item) == IF item = "CRM" THEN "crm" ELSE item

Take(seq, n) == SubSeq(seq, 1, Min(n, Len(seq)))

\* _extract_industry_and_products: cleaned_kps (duplicates dropped without
\* regard to case, order kept), then final_kps = cleaned_kps[:4].
RECURSIVE cleaned_kps(_, _)
cleaned_kps(items, acc) ==
    IF items = <<>> THEN acc
    ELSE cleaned_kps(Tail(items),
                     IF product_lower(Head(items))
                            \in {product_lower(seen_kps) : seen_kps \in Range(acc)}
                     THEN acc ELSE Append(acc, Head(items)))

final_kps(items) == Take(cleaned_kps(items, <<>>), MaxProducts)

\* scrape_company_facts: the products of the page, or, when the page yields
\* neither industry nor products and the LLM names products, the LLM's list
\* cut to its first four: llm_products_list[:4].
key_products_services ==
    /\ llm = NoCall
    /\ fn = NoFn
    /\ \E page \in SeqsUpTo(Products, MaxItems) :
       \E industry \in IF page = <<>> THEN BOOLEAN ELSE {FALSE} :
       \E answer \in IF page = <<>> /\ ~industry
                     THEN SeqsUpTo(Products, MaxItems) ELSE {<<>>} :
         fn' = [op |-> "key_products_services", page |-> page,
                industry |-> industry, answer |-> answer,
                out |-> IF final_kps(page) = <<>> /\ ~industry /\ answer # <<>>
                        THEN Take(answer, MaxProducts) ELSE final_kps(page)]
    /\ UNCHANGED <<env, job, user, report, pc, attempt, answers, facts, tasks,
                   calls, responses, results, idx, snap, credited, seen, llm,
                   reader, submitted, share>>

-----------------------------------------------------------------------------
(* CompetitorLandscapeAnalyzer._calculate_score *)

MaxEntries == 6

\* A text as the sequence of its characters.
lower_char(c) == IF c = "A" THEN "a" ELSE IF c = "B" THEN "b" ELSE c

\* str.lower()
str_lower(text) == [i \in 1..Len(text) |-> lower_char(text[i])]

\* sub in text
str_in(sub, text) ==
    \E i \in 1..(Len(text) - Len(sub) + 1) :
        SubSeq(text, i, i + Len(sub) - 1) = sub

\* The queried company, and entries of a provider's list: one equal to the
\* first company but for case, one containing it, one without it.
CompanyNames == {<<"A", "b">>, <<"b", "b">>}
Entries == {<<"a", "B">>, <<"b", "a", "b", "a">>, <<"b", "A">>}

\* The branch on actual_position.
position_points_TOP3(actual_position) ==
    CASE actual_position = 1 -> 25
      [] actual_position = 2 -> 20
      [] actual_position = 3 -> 15
      [] OTHER               -> 2

position_points(actual_position) ==
    CASE actual_position = 1 -> 25
      [] actual_position = 2 -> 20
      [] actual_position = 3 -> 15
      [] actual_position = 4 -> 10
      [] actual_position = 5 -> 5
      [] OTHER               -> 2

\* The loop over enumerate(competitors_list) from index position on.
RECURSIVE _calculate_score(_, _, _)
_calculate_score(competitors_list, name, position) ==
    IF position > Len(competitors_list) THEN [score |-> 0, included |-> FALSE]
    ELSE LET competitor == competitors_list[position]
             normalized_company_name == str_lower(name)
         IN  IF \/ str_lower(competitor) = normalized_company_name
                \/ str_in(normalized_company_name, str_lower(competitor))
             THEN [score |-> position_points(position), included |-> TRUE]
             ELSE _calculate_score(competitors_list, name, position + 1)

\* An empty parsed list gives score 0, included False without scoring.
_analyze_single_llm_response ==
    /\ llm = NoCall
    /\ fn = NoFn
    /\ \E parsed_competitors \in SeqsUpTo(Entries, MaxEntries) :
       \E name \in CompanyNames :
         fn' = [op |-> "calculate_score", competitors |-> parsed_competitors,
                company_name |-> name,
                out |-> IF parsed_competitors = <<>>
                        THEN [score |-> 0, included |-> FALSE]
                        ELSE _calculate_score(parsed_competitors, name, 1)]
    /\ UNCHANGED <<env, job, user, report, pc, attempt, answers, facts, tasks,
                   calls, responses, results, idx, snap, credited, seen, llm,
                   reader, submitted, share>>

-----------------------------------------------------------------------------
(* CompetitorLandscapeAnalyzer._parse_competitor_list *)

MaxListed == 3

\* Characters with a role in a response text; the fence and its language tag
\* are taken as one character each.
SQ == "'"
DQ == "\""
Fence == "<fence>"
PythonTag == "<python>"
Quotes == {SQ, DQ}
Whitespace == {" ", "\n"}

\* Company names a provider may list: plain, with an inner space, with a
\* leading and with a trailing space, with an apostrophe, and one holding the
\* characters quote, comma, space, quote.
ListNames ==
    { <<"A">>, <<"A", " ", "B">>, <<" ", "A">>, <<"A", " ">>, <<"A", SQ, "s">>,
      <<"A", SQ, ",", " ", SQ, "B">> }

\* repr of a str: single quotes, double quotes when the text holds a single one.
repr_str(name) ==
    LET q == IF SQ \in Range(name) THEN DQ ELSE SQ IN <<q>> \o name \o <<q>>

RECURSIVE repr_items(_)
repr_items(names) ==
    IF names = <<>> THEN <<>>
    ELSE IF Len(names) = 1 THEN repr_str(names[1])
    ELSE repr_str(names[1]) \o <<",", " ">> \o repr_items(Tail(names))

\* The canonical literal-array text of a list of names: ['A', 'A B'].
literal_text(names) == <<"[">> \o repr_items(names) \o <<"]">>

\* The same text in a fenced code block, with or without the language tag.
fenced_text(text, tagged) ==
    <<Fence>> \o (IF tagged THEN <<PythonTag>> ELSE <<>>) \o <<"\n">>
        \o text \o <<"\n", Fence>>

\* str.strip(chars)
RECURSIVE strip_of(_, _)
strip_of(text, chars) ==
    IF text = <<>> THEN <<>>
    ELSE IF Head(text) \in chars THEN strip_of(Tail(text), chars)
    ELSE IF text[Len(text)] \in chars
         THEN strip_of(SubSeq(text, 1, Len(text) - 1), chars)
    ELSE text

str_strip(text) == strip_of(text, Whitespace)

\* The first position from i on that holds no whitespace (\s*).
skip_ws(text, i) ==
    CHOOSE j \in i..(Len(text) + 1) :
        /\ j = Len(text) + 1 \/ text[j] \notin Whitespace
        /\ \A k \in i..(j - 1) : text[k] \in Whitespace

\* The end of the string literal opened at i: the next character equal to the
\* opening quote, 0 if there is none.
closing_quote_ANY(text, i) ==
    IF \E j \in (i + 1)..Len(text) : text[j] \in Quotes
    THEN CHOOSE j \in (i + 1)..Len(text) :
            /\ text[j] \in Quotes
            /\ \A k \in (i + 1)..(j - 1) : text[k] \notin Quotes
    ELSE 0

closing_quote(text, i) ==
    IF \E j \in (i + 1)..Len(text) : text[j] = text[i]
    THEN CHOOSE j \in (i + 1)..Len(text) :
            /\ text[j] = text[i]
            /\ \A k \in (i + 1)..(j - 1) : text[k] # text[i]
    ELSE 0

NotALiteral == [ok |-> FALSE, value |-> <<>>]

\* ast.literal_eval as far as a list of string literals needs it: items from
\* position i on, a comma between them, an optional trailing comma.
RECURSIVE literal_list(_, _, _, _)
literal_list(text, i, acc, expect) ==
    LET j == skip_ws(text, i) IN
    IF j > Len(text) THEN NotALiteral
    ELSE IF text[j] = "]"
         THEN IF skip_ws(text, j + 1) > Len(text)
              THEN [ok |-> TRUE, value |-> acc] ELSE NotALiteral
    ELSE IF expect = "item"
         THEN IF text[j] \in Quotes /\ closing_quote(text, j) # 0
              THEN literal_list(text, closing_quote(text, j) + 1,
                                Append(acc, SubSeq(text, j + 1,
                                                   closing_quote(text, j) - 1)),
                                "comma")
              ELSE NotALiteral
    ELSE IF text[j] = "," THEN literal_list(text, j + 1, acc, "item")
    ELSE NotALiteral

literal_eval(text) ==
    IF text # <<>> /\ text[1] = "[" THEN literal_list(text, 2, <<>>, "item")
    ELSE NotALiteral

\* "', '" in comp or '", "' in comp
has_quote_comma_quote(comp) ==
    \/ str_in(<<SQ, ",", " ", SQ>>, comp)
    \/ str_in(<<DQ, ",", " ", DQ>>, comp)

\* The last position of a match of ['"]\s*,\s*['"] starting at i, 0 if none.
separator_end(text, i) ==
    IF text[i] \notin Quotes THEN 0
    ELSE LET j == skip_ws(text, i + 1) IN
         IF j > Len(text) \/ text[j] # "," THEN 0
         ELSE LET k == skip_ws(text, j + 1) IN
              IF k <= Len(text) /\ text[k] \in Quotes THEN k ELSE 0

\* re.split on that pattern.
RECURSIVE re_split(_, _, _, _)
re_split(text, i, start, acc) ==
    IF i > Len(text) THEN Append(acc, SubSeq(text, start, Len(text)))
    ELSE IF separator_end(text, i) # 0
         THEN re_split(text, separator_end(text, i) + 1,
                       separator_end(text, i) + 1,
                       Append(acc, SubSeq(text, start, i - 1)))
    ELSE re_split(text, i + 1, start, acc)

\* part.strip().strip('\'"') of every part, the empty ones dropped.
clean_parts(parts) ==
    SelectSeq([i \in 1..Len(parts) |-> strip_of(str_strip(parts[i]), Quotes)],
              LAMBDA clean_part : clean_part # <<>>)

\* The post-processing of the entries of a clean list.
RECURSIVE cleaned_competitors(_)
cleaned_competitors(competitors) ==
    IF competitors = <<>> THEN <<>>
    ELSE (IF has_quote_comma_quote(Head(competitors))
          THEN clean_parts(re_split(Head(competitors), 1, 1, <<>>))
          ELSE <<str_strip(Head(competitors))>>)
         \o cleaned_competitors(Tail(competitors))

NoMatch == [ok |-> FALSE, text |-> <<>>]

\* re.search of backtick_pattern, a fence, an optional python tag, \s*, the
\* group (\[.*?\]), \s* and a fence: the leftmost fence that is followed by a
\* bracket, and from it the shortest text up to a closing
\* bracket that is followed by a fence.
backtick_list(response) ==
    LET open(i) == skip_ws(response, IF i < Len(response) /\ response[i + 1] = PythonTag
                                     THEN i + 2 ELSE i + 1)
        closes(i) == {j \in (open(i) + 1)..Len(response) :
                        /\ response[j] = "]"
                        /\ skip_ws(response, j + 1) <= Len(response)
                        /\ response[skip_ws(response, j + 1)] = Fence}
        starts == {i \in 1..Len(response) :
                        /\ response[i] = Fence
                        /\ open(i) <= Len(response)
                        /\ response[open(i)] = "["
                        /\ closes(i) # {}}
    IN  IF starts = {} THEN NoMatch
        ELSE LET i == CHOOSE s \in starts : \A o \in starts : s <= o
                 j == CHOOSE c \in closes(i) : \A o \in closes(i) : c <= o
             IN  [ok |-> TRUE, text |-> SubSeq(response, open(i), j)]

\* The three regular-expression fallbacks after the fence are a path of their
\* own; what they collect is not followed further.
_parse_competitor_list(response) ==
    LET clean == literal_eval(str_strip(response))
        matches == backtick_list(response)
        list == literal_eval(str_strip(matches.text))
    IN  IF clean.ok
        THEN [path |-> "literal", list |-> cleaned_competitors(clean.value)]
        ELSE IF matches.ok /\ list.ok
             THEN [path |-> "fenced",
                   list |-> [i \in 1..Len(list.value) |-> str_strip(list.value[i])]]
        ELSE [path |-> "patterns", list |-> <<>>]

parse_competitor_list ==
    /\ llm = NoCall
    /\ fn = NoFn
    /\ \E names \in SeqsUpTo(ListNames, MaxListed) :
       \E tagged \in BOOLEAN :
         fn' = [op |-> "parse", names |-> names, tagged |-> tagged,
                plain |-> _parse_competitor_list(literal_text(names)),
                fenced |-> _parse_competitor_list(
                               fenced_text(literal_text(names), tagged))]
    /\ UNCHANGED <<env, job, user, report, pc, attempt, answers, facts, tasks,
                   calls, responses, results, idx, snap, credited, seen, llm,
                   reader, submitted, share>>

-----------------------------------------------------------------------------
(* _extract_clean_text *)

\* The document tree as the set of its elements, each with its tag and the
\* part of the document it stands in; "data" is an element whose src or href
\* is a data: URI, "comment" an HTML comment.
Tags == {"title", "meta", "script", "p", "data", "comment"}
PageElements == [tag : Tags, inside : {"head", "body"}]

\* soup(['script', 'style', 'noscript', 'meta', 'link', 'head']) with
\* element.decompose(): the listed elements go, and with the head all it holds.
decomposed(soup) ==
    {el \in soup : el.tag \notin {"script", "meta"} /\ el.inside # "head"}

\* The comments are extracted and the data: elements decomposed; what is left
\* is the tree the text is read from, and the tree the caller holds.
_extract_clean_text(soup) ==
    LET left == {el \in decomposed(soup) : el.tag \notin {"comment", "data"}}
    IN  [soup |-> left, all_text |-> {el \in left : el.tag \in {"title", "p"}}]

\* scrape_website: soup = BeautifulSoup(response.text), then
\* all_text = _extract_clean_text(soup) and return soup, all_text.
extract_clean_text ==
    /\ llm = NoCall
    /\ fn = NoFn
    /\ \E page \in SUBSET PageElements :
         fn' = [op |-> "clean_text", page |-> page,
                soup |-> _extract_clean_text(page).soup,
                all_text |-> _extract_clean_text(page).all_text]
    /\ UNCHANGED <<env, job, user, report, pc, attempt, answers, facts, tasks,
                   calls, responses, results, idx, snap, credited, seen, llm,
                   reader, submitted, share>>

-----------------------------------------------------------------------------
(* scrape_website: one attempt, from its first response on *)

\* A response: its status code, whether the page it carries has a
\* meta-refresh tag with a url, and whether the body of that page is empty or
\* reads "Redirecting...".
Responses == [status : {200, 404, 503}, meta_refresh : BOOLEAN,
              redirecting_only : BOOLEAN]

\* response.raise_for_status() on the first response only; the responses to
\* the meta-refresh target and to the alternate www/non-www URL are parsed
\* as they come.
scrape_attempt(first, redirect, alternative) ==
    IF first.status >= 400 THEN [returned |-> FALSE, page |-> first, requests |-> 1]
    ELSE LET followed == IF first.meta_refresh THEN redirect ELSE first
             n == IF first.meta_refresh THEN 2 ELSE 1
         IN  IF followed.redirecting_only
             THEN [returned |-> TRUE, page |-> alternative, requests |-> n + 1]
             ELSE [returned |-> TRUE, page |-> followed, requests |-> n]

scrape_website_attempt ==
    /\ llm = NoCall
    /\ fn = NoFn
    /\ \E first \in Responses, redirect \in Responses, alternative \in Responses :
         fn' = [op |-> "scrape_attempt", first |-> first, redirect |-> redirect,
                alternative |-> alternative,
                out |-> scrape_attempt(first, redirect, alternative)]
    /\ UNCHANGED <<env, job, user, report, pc, attempt, answers, facts, tasks,
                   calls, responses, results, idx, snap, credited, seen, llm,
                   reader, submitted, share>>

UnitInit ==
    /\ env = BaseEnv
    /\ job = initial_job_data({})
    /\ user = BaseUser
    /\ Scheduled
    /\ llm = NoCall
    /\ fn = NoFn
    /\ Quiet

UnitNext ==
    \/ \E p \in ProviderSet : query_start(p)
    \/ query_attempt
    \/ ai_presence_analyze
    \/ _validate_and_get_best_url
    \/ company_name
    \/ key_products_services
    \/ _analyze_single_llm_response
    \/ parse_competitor_list
    \/ extract_clean_text
    \/ scrape_website_attempt

UnitSpec == UnitInit /\ [][UnitNext]_vars

-----------------------------------------------------------------------------
(* Requests of one user beside each other: several analysis requests, and *)
(* several create_share_link calls for one job                             *)

\* POST /analysis/analyze: check_user_credits lets the request through when
\* the user document exists and holds more than 0 credits (404 and 403
\* otherwise); the job is created and its task scheduled.
analyze_site(j) ==
    /\ share = NoShare
    /\ submitted[j] = "none"
    /\ user.exists
    /\ user.credits > 0
    /\ submitted' = [submitted EXCEPT ![j] = "running"]
    /\ UNCHANGED <<fn, llm, env, job, user, report, pc, attempt, answers, facts,
                   tasks, calls, responses, results, idx, snap, credited, seen,
                   reader, share>>

\* perform_analysis_task of request j up to finalization: it fails on the
\* way, or reaches _finalize_report.
perform_analysis_task(j) ==
    /\ submitted[j] = "running"
    /\ \E stage \in {"failed", "finalizing"} :
         submitted' = [submitted EXCEPT ![j] = stage]
    /\ UNCHANGED <<fn, llm, env, job, user, report, pc, attempt, answers, facts,
                   tasks, calls, responses, results, idx, snap, credited, seen,
                   reader, share>>

\* _finalize_report of request j: user_ref.get() and, for a user without an
\* active subscription, user_ref.update({"credits": Increment(-1)}).
_finalize_report(j) ==
    /\ submitted[j] = "finalizing"
    /\ user' = IF user.exists /\ ~active_subscription(user.subscription)
               THEN [user EXCEPT !.credits = @ - 1] ELSE user
    /\ submitted' = [submitted EXCEPT ![j] = "completed"]
    /\ UNCHANGED <<fn, llm, env, job, report, pc, attempt, answers, facts,
                   tasks, calls, responses, results, idx, snap, credited, seen,
                   reader, share>>

\* create_share_link by the owner: job_ref.get().
create_share_link_get(c) ==
    /\ submitted = NoneSubmitted
    /\ share.calls[c].at = "idle"
    /\ share' = [share EXCEPT !.calls[c] =
                    [at |-> "read", public |-> share.public,
                     share_token |-> share.share_token]]
    /\ UNCHANGED <<fn, llm, env, job, user, report, pc, attempt, answers, facts,
                   tasks, calls, responses, results, idx, snap, credited, seen,
                   reader, submitted>>

\* create_share_link from the job data it read: a job it saw as not public
\* gets a new token (secrets.token_urlsafe: a value not given out before)
\* written with public = True; otherwise the token it read is taken.  The
\* share_url of that token is returned.
create_share_link_return(c) ==
    /\ share.calls[c].at = "read"
    /\ LET generate == ~share.calls[c].public
           token == IF generate THEN share.tokens + 1
                    ELSE share.calls[c].share_token
       IN  share' = [share EXCEPT
                        !.public = IF generate THEN TRUE ELSE @,
                        !.share_token = IF generate THEN token ELSE @,
                        !.tokens = IF generate THEN token ELSE @,
                        !.returned = @ \cup {token},
                        !.calls[c] = NoShare.calls[c]]
    /\ UNCHANGED <<fn, llm, env, job, user, report, pc, attempt, answers, facts,
                   tasks, calls, responses, results, idx, snap, credited, seen,
                   reader, submitted>>

\* get_public_report(share_token): the query where("share_token", "==",
\* share_token) finds the job, and the job is public.
get_public_report(share_token) ==
    /\ share.public
    /\ share.share_token = share_token

\* The user as check_user_credits may find it, and no request made yet.
ServiceInit ==
    /\ env = BaseEnv
    /\ job = initial_job_data({})
    /\ user \in {u \in Users : u.persistent}
    /\ Scheduled
    /\ llm = NoCall
    /\ fn = NoFn
    /\ Quiet

ServiceNext ==
    \/ \E j \in 1..MaxJobs : analyze_site(j)
    \/ \E j \in 1..MaxJobs : perform_analysis_task(j)
    \/ \E j \in 1..MaxJobs : _finalize_report(j)
    \/ \E c \in 1..MaxCallers : create_share_link_get(c)
    \/ \E c \in 1..MaxCallers : create_share_link_return(c)

ServiceSpec == ServiceInit /\ [][ServiceNext]_vars

-----------------------------------------------------------------------------
(* The properties *)

C2_NoWriteAfterTerminal ==
    [][job.status \in {COMPLETED, FAILED} => job' = job]_vars

\* C3: the stored progress is always within [0, 1] and never decreases, and
\* neither does the progress successive status reads return.
C3_ProgressMonotone ==
    /\ [](job.progress \in ProgressCreated..ProgressDone)
    /\ [](seen \in ProgressCreated..ProgressDone)
    /\ [][job'.progress >= job.progress /\ seen' >= seen]_vars

\* A reader that saw 0.80 while the job has gone on to 1.0.
C3_Witness == seen = ProgressCap /\ job.progress = ProgressDone

\* C4: a job whose status is Failed has no report document.
C4_FailedHasNoReport == job.status = FAILED => report = "none"

\* A job that failed in finalization, after it had been marked completed.
C4_Witness ==
    /\ job.status = FAILED
    /\ job.progress = ProgressDone
    /\ pc = "done"
    /\ report = "none"

\* C5, as stated: a task that ends Completed has decremented exactly one
\* credit if the owner has no active subscription and none if the owner has
\* one; a job that fails before finalization has decremented none.
C5_CreditBySubscription ==
    /\ (pc = "done" /\ job.status = COMPLETED) =>
          credited = IF /\ user.subscription.status = "active"
                        /\ user.subscription.type \in {"starter", "developer"}
                     THEN 0 ELSE 1
    /\ (job.status = FAILED /\ job.progress < ProgressDone) => credited = 0

\* C5, amended: a task that ends Completed has decremented exactly one credit
\* if the owner's user document existed when finalization read it and showed
\* no active subscription, and none if it showed one or the document was
\* missing; a job that fails before finalization has decremented none.
C5_CreditByUserDocument ==
    /\ credited \in {0, 1}
    /\ (pc = "done" /\ job.status = COMPLETED) =>
          credited = IF /\ snap.exists
                        /\ ~ (/\ snap.subscription.status = "active"
                              /\ snap.subscription.type \in {"starter", "developer"})
                     THEN 1 ELSE 0
    /\ (job.status = FAILED /\ job.progress < ProgressDone) => credited = 0

\* A completed job of an owner with a cancelled subscription: one credit gone.
C5_Witness ==
    /\ pc = "done"
    /\ job.status = COMPLETED
    /\ snap.exists
    /\ snap.subscription.status = "cancelled"
    /\ credited = 1

\* C6: once one of the three analyzers has raised, no report is written and
\* no credit is decremented, and the task ends with the job Failed and an
\* error that names the analyzer that raised (the first in the order
\* ai_presence, competitor_landscape, strategy_review when several did),
\* whatever the other analyzers returned.
C6_AnalyzerFailureFailsJob ==
    (\E t \in TaskSet : tasks[t] = "raised") =>
        /\ report = "none"
        /\ credited = 0
        /\ job.status # COMPLETED
        /\ pc = "done" =>
             /\ job.status = FAILED
             /\ job.error = [kind |-> "analysis_failed", arg |-> task_names[idx + 1]]
             /\ tasks[task_names[idx + 1]] = "raised"
             /\ \A i \in 1..idx : tasks[task_names[i]] = "returned"

\* strategy_review raised after the other two had returned their results.
C6_Witness ==
    /\ pc = "done"
    /\ tasks = [t \in TaskSet |->
                  IF t = "strategy_review" THEN "raised" ELSE "returned"]
    /\ job.status = FAILED
    /\ job.error.arg = "strategy_review"

\* C7: an analyzer is only ever started with a non-empty company name; a job
\* whose extracted name is empty is Failed at the fact-extraction stage, with
\* no analyzer and no provider call started.
C7_NoAnalyzerWithoutName ==
    /\ \A t \in TaskSet : tasks[t] # "none" => facts.extracted /\ facts.name # ""
    /\ (facts.extracted /\ facts.name = "") =>
          /\ job.status = FAILED
          /\ job.error = Sentence("no_information")
          /\ job.progress = ProgressValidated
          /\ \A t \in TaskSet : tasks[t] = "none"
          /\ \A p \in ProviderSet : calls[p] = "none"

\* The extraction came back with an empty name.
C7_Witness == facts.extracted /\ facts.name = "" /\ pc = "done"

\* C8: when every standard attempt is answered 403 and the conservative
\* request is answered 403 too, the job is Failed, its error is the
\* "blocking automated access" sentence and its error_details contain "403".
C8_BlockedEverywhere ==
    (/\ Len(answers) = max_retries + 1
     /\ \A i \in 1..Len(answers) : answers[i] = "403") =>
        /\ job.status = FAILED
        /\ job.error = Sentence("blocked")
        /\ "403" \in Markers(job.error_details)

\* Four 403 answers, for a URL whose own text contains "404".
C8_Witness ==
    /\ answers = <<"403", "403", "403", "403">>
    /\ job.url = {"404"}
    /\ pc = "done"

\* C9: the sentence of a scrape failure is determined by the kind of the
\* failure alone (blocked, not found, rate limited, timeout, SSL,
\* connection), whatever text the URL contains.
C9_SentenceByKindAlone ==
    LET kind == IF Len(answers) > max_retries THEN "403"
                ELSE answers[Len(answers)]
        sentence == CASE kind = "403"     -> "blocked"
                      [] kind = "404"     -> "not_found"
                      [] kind = "429"     -> "rate_limited"
                      [] kind = "timeout" -> "timeout"
                      [] kind = "ssl"     -> "ssl"
                      [] OTHER            -> "connection"
    IN  (/\ job.status = FAILED
         /\ job.progress = ProgressValidated
         /\ job.error_details.template
               \in {"forbidden", "not_found", "rate_limited", "too_long", "connect"}
         /\ kind \in {"403", "404", "429", "timeout", "ssl", "connect"}) =>
            job.error = Sentence(sentence)

C13_BoundedAttempts ==
    /\ [](attempt \in 0..(max_retries - 1))
    /\ [](Len(answers) <= max_retries + 1)
    /\ [](pc = "scrape" => Len(answers) = attempt)
    /\ [][(pc' = "conservative" /\ pc # "conservative") =>
             /\ pc = "scrape"
             /\ attempt = max_retries - 1
             /\ answers' = Append(answers, "403")
             /\ Len(answers') = max_retries]_vars
    /\ [][(pc = "conservative" /\ answers' # answers) =>
             /\ pc' # "conservative"
             /\ Len(answers') = max_retries + 1
             /\ answers'[Len(answers')] # "ok" =>
                  /\ job'.status = FAILED
                  /\ job'.error_details = Message("forbidden", job.url)]_vars

\* Three 403 answers, then a conservative request that timed out.
C13_Witness ==
    /\ pc = "done"
    /\ Len(answers) = max_retries + 1
    /\ answers[max_retries + 1] = "timeout"
    /\ job.error_details.template = "forbidden"

C16_UnconfiguredNeverCalled ==
    /\ \A p \in ProviderSet : calls[p] # "none" => p \in env.keys
    /\ facts.fallback => "openai" \in env.keys
    /\ (facts.topic /\ tasks["competitor_landscape"] # "none") =>
          \A p \in ProviderSet \ env.keys : responses[p].kind = "not_configured"

\* C17: once the three analyzers have been started, in every state where k
\* of them have completed and the job has not failed, the stored progress is
\* at least 0.20 + 0.20 * k.
C17_ProgressPerCompletion ==
    LET k == Cardinality({t \in TaskSet : tasks[t] = "returned"}) IN
    ((\A t \in TaskSet : tasks[t] # "none") /\ job.status # FAILED) =>
        job.progress >= ProgressScraped + ProgressStep * k

\* C15: for each of the four providers, a call whose request fails with a
\* retryable error (network, timeout, 5xx, 429, overloaded) is retried until
\* it succeeds or LLM_MAX_RETRIES requests have been made, and never more
\* than LLM_MAX_RETRIES requests are made for one call.
C15_RetriedUpToMax ==
    /\ Len(llm.log) <= LLM_MAX_RETRIES
    /\ (/\ llm.status = "raised"
        /\ llm.log[Len(llm.log)] \in {"network", "timeout", "5xx", "429", "overloaded"}) =>
           Len(llm.log) = LLM_MAX_RETRIES

\* C11: the score an analyzer returns lies in [0, 100]; here for the AI
\* presence analyzer, whose score is total / count.
C11_ScoreInRange ==
    fn.op = "ai_presence" =>
        /\ fn.count > 0
        /\ 0 <= fn.total
        /\ fn.total <= 100 * fn.count

\* C12: the AI presence score is the mean of the scores of the providers
\* that answered (configured, call returned), and 0 when none did: with
\* successes S, total / count = (sum of the scores of S) / |S|.
C12_MeanOfSuccessful ==
    fn.op = "ai_presence" =>
        LET successful == fn.keys \ fn.failing
            answered == [p \in successful |-> _score_llm_response(fn.replies[p])]
        IN  /\ fn.count > 0
            /\ IF successful = {}
               THEN fn.total = 0
               ELSE fn.total * Cardinality(successful)
                       = Sum(answered, successful) * fn.count

\* C18: the URL resolver returns the candidate with the highest score among
\* the candidates it probed and got a response from, the earlier one on equal
\* scores, and it stops probing as soon as a new best candidate answered 200
\* with a body over 5000 bytes.
C18_HighestScoringCandidate ==
    fn.op = "validate_url" =>
        LET scored == {j \in 1..fn.out.probed : fn.probes[j].kind = "response"}
            best == fn.out.url
        IN  /\ scored # {} =>
                 /\ best \in scored
                 /\ \A j \in scored :
                       /\ probe_score(fn.probes[best]) >= probe_score(fn.probes[j])
                       /\ probe_score(fn.probes[best]) = probe_score(fn.probes[j])
                             => best <= j
            /\ fn.out.probed < Len(fn.probes) =>
                 /\ best = fn.out.probed
                 /\ fn.probes[best].status = 200
                 /\ fn.probes[best].bytes > 5000

\* C19: when one cleaned candidate occurs more often across all sources
\* (site-name metas, title parts, domain label) than every other, without
\* regard to case, company-name voting returns it.
C19_MostFrequentName ==
    fn.op = "company_name" =>
        LET all == without_extensions(fn.high \o fn.title \o fn.domain)
            occurrences(l) == Cardinality({i \in 1..Len(all) : lower(all[i]) = l})
        IN  \A n \in Range(all) :
               (\A o \in Range(all) :
                   lower(o) # lower(n) => occurrences(lower(o)) < occurrences(lower(n)))
               => lower(fn.out) = lower(n)

\* C20: the key_products_services list of the company facts has at most 4
\* entries and no entry twice.
C20_ProductsBoundedDistinct ==
    fn.op = "key_products_services" =>
        /\ Len(fn.out) <= MaxProducts
        /\ \A i, j \in 1..Len(fn.out) : fn.out[i] = fn.out[j] => i = j


\* C21: per provider the competitor score is 0 when no entry of the parsed
\* list equals the queried company without regard to case or contains it, and
\* otherwise the points of the position of the first such entry: 25, 20, 15,
\* 10, 5 for positions 1 to 5 and 2 beyond; included is true exactly when the
\* score is above 0.
C21_PositionPoints ==
    fn.op = "calculate_score" =>
        LET name == str_lower(fn.company_name)
            matching == {i \in 1..Len(fn.competitors) :
                            \/ str_lower(fn.competitors[i]) = name
                            \/ str_in(name, str_lower(fn.competitors[i]))}
            first == CHOOSE i \in matching : \A j \in matching : i <= j
        IN  /\ matching = {} => fn.out.score = 0
            /\ matching # {} =>
                 fn.out.score = (CASE first = 1 -> 25 [] first = 2 -> 20
                                   [] first = 3 -> 15 [] first = 4 -> 10
                                   [] first = 5 -> 5  [] OTHER -> 2)
            /\ fn.out.included <=> fn.out.score > 0

\* A company found only by containment, at the 5th position of a list that
\* names it again later.
C21_Witness ==
    /\ fn.op = "calculate_score"
    /\ fn.out.score = 5
    /\ Len(fn.competitors) = 6
    /\ str_lower(fn.competitors[5]) # str_lower(fn.company_name)
    /\ str_in(str_lower(fn.company_name), str_lower(fn.competitors[6]))


\* C22 (as stated): for every list of company names, parsing its canonical
\* literal-array text returns exactly that list in the same order, and parsing
\* the same text wrapped in a fenced code block returns the identical list.
C22_RoundTrip ==
    fn.op = "parse" =>
        /\ fn.plain.list = fn.names
        /\ fn.fenced.list = fn.plain.list

\* C22 (amended): for every list of company names that carry no leading or
\* trailing whitespace and do not hold the characters quote, comma, space,
\* quote in a row, parsing the canonical literal-array text returns exactly
\* that list in the same order, and so does parsing the text wrapped in a
\* fenced code block, with or without the language tag.
C22_RoundTripOfTrimmedNames ==
    (/\ fn.op = "parse"
     /\ \A i \in 1..Len(fn.names) :
           /\ str_strip(fn.names[i]) = fn.names[i]
           /\ ~has_quote_comma_quote(fn.names[i]))
    => /\ fn.plain.path = "literal"
       /\ fn.plain.list = fn.names
       /\ fn.fenced.path = "fenced"
       /\ fn.fenced.list = fn.names

\* Three trimmed names, one with an apostrophe and one with an inner space,
\* parsed from a tagged fenced block.
C22_Witness ==
    /\ fn.op = "parse"
    /\ fn.tagged
    /\ fn.names = << <<"A", SQ, "s">>, <<"A", " ", "B">>, <<"A">> >>
    /\ fn.fenced.list = fn.names


\* C23: in AI-presence scoring the uncertainty penalty is subtracted only
\* when the score of the response is already positive, so the score of a
\* single provider response is never below 0.
C23_PenaltyOnlyWhenPositive ==
    fn.op = "ai_presence" =>
        \A p \in DOMAIN fn.scores :
            /\ fn.scores[p] >= 0
            /\ (fn.keys \ fn.failing = {p} /\ fn.replies[p].uncertainty
                  /\ ~fn.replies[p].name /\ ~fn.replies[p].product
                  /\ ~fn.replies[p].hq /\ ~fn.replies[p].founded
                  /\ ~fn.replies[p].industry)
               => fn.scores[p] = 0


\* C24: text extraction leaves the parsed document tree unchanged: the
\* document returned by scrape_website together with the cleaned text still
\* holds the head, title, meta and script elements of the fetched page.
C24_TreeUnchanged ==
    fn.op = "clean_text" =>
        \A el \in fn.page :
            (el.inside = "head" \/ el.tag \in {"title", "meta", "script"})
                => el \in fn.soup


\* C27: a credit is decremented only for a job that ends with a persisted
\* report: no job ends Failed with a credit having been taken from its owner.
C27_NoCreditForFailedJob ==
    job.status = FAILED => credited = 0

\* C28: in the provider fan-out a failed call is recorded as an error under
\* the key of the provider that failed and under no other provider's key, and
\* every dispatched provider ends with an entry, a text or an error, in the
\* responses, for every subset of configured providers.
C28_ErrorUnderOwnKey ==
    tasks["competitor_landscape"] \in {"returned", "raised"} =>
        \A p \in ProviderSet :
            /\ calls[p] = "error" => responses[p] = [kind |-> "error", of |-> p]
            /\ responses[p].kind = "error" => responses[p].of = p
            /\ calls[p] # "none" => responses[p].kind \in {"text", "error"}


\* C25: whenever a reader observes a job with status Completed, the report is
\* already persisted: get_job_report by the owner, at any interleaving with
\* the orchestrator, never finds status Completed and then answers NOT_FOUND
\* for a report that was not deleted.
C25_CompletedHasReport ==
    (reader.at = "answered" /\ reader.status = COMPLETED
        /\ reader.answer = NOT_FOUND)
    => reader.deleted


\* C26: a user's credit balance never becomes negative, for any number of
\* analysis requests submitted by that user and any interleaving of the
\* credit check at submission with the credit decrement at job completion.
C26_CreditsNeverNegative ==
    user.credits >= 0

\* C29: the share token of a job is generated once: every call of
\* create_share_link by the owner, sequential or concurrent, returns the same
\* share_url, and every share_url ever returned keeps resolving to that job
\* in get_public_report.
C29_OneShareToken ==
    /\ Cardinality(share.returned) <= 1
    /\ share.tokens <= 1
    /\ \A token \in share.returned : get_public_report(token)


\* C30: scrape_website returns a document only when every response it was
\* parsed from had a non-error HTTP status: an error answer (4xx/5xx) to the
\* meta-refresh redirect request or to the alternate www/non-www request is
\* a failed attempt, not the page returned.
C30_NoErrorPageReturned ==
    (fn.op = "scrape_attempt" /\ fn.out.returned) => fn.out.page.status < 400

=============================================================================
